---- MODULE Spec2Model ----
(***************************************************************************)
(* cloud-rsync: content-defined chunk signatures (Signature::generate),    *)
(* signature diffing (Diff::new) and the local builders                    *)
(* (build_local_diff_file, build_local_file), plus the sign / diff         *)
(* commands of main.rs.                                                    *)
(*                                                                         *)
(* Files and streams are finite sequences of bytes.  Offsets are 0-based   *)
(* as in the source; TLA+ sequences are 1-based, so byte `o` of a stream   *)
(* is data[o + 1].                                                         *)
(***************************************************************************)
EXTENDS Integers, Sequences, FiniteSets, TLC

\* ------------------------------------------------------------------ bounds
\* longest file of the library pipeline (Spec)
MaxLen == 6
\* longest file handed to the builders with foreign streams/schemas (SpecBuild)
MaxBuildLen == 4
\* longest file of the command-line runs (SpecCmd)
MaxCmdLen == 3
\* largest min_size a signature is generated with
MaxMin == 2
\* max_size every signature is generated with
MaxSize == 3
\* number of hex digits of a serialized hash
HexWidth == 4
\* the first id the id generator hands out
FirstUuid == 1
\* longest content found at the destination path before a diff command runs
MaxPriorLen == 2

\* the byte alphabet; byte 0 is the content on which the chunker cuts
Bytes == {0, 1}

None == [tag |-> "None"]

Some(v) == [tag |-> "Some", val |-> v]

Min(a, b) == IF a < b THEN a ELSE b

\* all byte sequences of length at most n
RECURSIVE SeqsUpTo(_)
SeqsUpTo(n) ==
    IF n = 0 THEN {<<>>}
    ELSE LET shorter == SeqsUpTo(n - 1)
         IN  shorter \cup {Append(s, b) : s \in {t \in shorter : Len(t) = n - 1}, b \in Bytes}

RECURSIVE SumLengths(_)
SumLengths(ops) ==
    IF ops = <<>> THEN 0 ELSE ops[1].length + SumLengths(Tail(ops))

\* ------------------------------------------------------------------ hashing
\* blake3::Hasher: the state absorbs the bytes one after another.  The digest
\* is an injective code of the absorbed byte string (collision freedom).
RECURSIVE HasherUpdate(_, _)
HasherUpdate(h, data) ==
    IF data = <<>> THEN h
    ELSE HasherUpdate(h * (Cardinality(Bytes) + 1) + data[1] + 1, Tail(data))

HasherNew == 0

Blake3Hash(data) == HasherUpdate(HasherNew, data)

\* ------------------------------------------------------------------ chunker
\* the (min_size, avg_size, max_size) triples signatures are generated with
ChunkParams ==
    {[min_size |-> m, avg_size |-> m, max_size |-> MaxSize] : m \in 1..MaxMin}

\* StreamCDC cut point: length of the chunk that starts at offset `start`.
\* Whatever remains is one chunk when it is no longer than min_size; else
\* the chunk ends at the first position >= min_size whose byte satisfies the
\* boundary judgement, and at max_size at the latest.  The judgement only
\* looks at bytes of the chunk itself.
CutLength(data, start, p) ==
    LET remaining == Len(data) - start
        upper == Min(p.max_size, remaining)
        cuts == {n \in p.min_size..upper : data[start + n] = 0}
    IN  IF remaining <= p.min_size THEN remaining
        ELSE IF cuts = {} THEN upper
        ELSE CHOOSE n \in cuts : \A m \in cuts : n <= m

\* the chunks StreamCDC yields from offset `start` on: offset, length, data
RECURSIVE StreamCDC(_, _, _)
StreamCDC(data, start, p) ==
    IF start >= Len(data) THEN <<>>
    ELSE LET n == CutLength(data, start, p)
         IN  <<[offset |-> start, length |-> n,
                data |-> SubSeq(data, start + 1, start + n)]>>
             \o StreamCDC(data, start + n, p)

\* ---------------------------------------------------------------- signature
\* the loop body of Signature::generate, folded over the chunker's output
RECURSIVE GenerateLoop(_, _)
GenerateLoop(source_chunks, acc) ==
    IF source_chunks = <<>> THEN acc
    ELSE LET source_chunk == source_chunks[1]
             chunk == [length |-> source_chunk.length,
                       offset |-> source_chunk.offset,
                       strong_hash |-> Blake3Hash(source_chunk.data)]
         IN  GenerateLoop(Tail(source_chunks),
                 [hasher |-> HasherUpdate(acc.hasher, source_chunk.data),
                  chunks |-> Append(acc.chunks, chunk),
                  length |-> acc.length + chunk.length])

Generate(reader, p) ==
    LET r == GenerateLoop(StreamCDC(reader, 0, p),
                          [hasher |-> HasherNew, chunks |-> <<>>, length |-> 0])
    IN  [strong_hash |-> r.hasher, length |-> r.length, chunks |-> r.chunks]

\* variant: equality that also compares the lengths and the chunk lists
SignatureEqAllFields(a, b) == a = b

\* impl PartialEq for Signature
SignatureEq(a, b) == a.strong_hash = b.strong_hash

\* variant: an index in which the last chunk inserted under a hash wins
RECURSIVE ChunksMapLoopLastWins(_, _)
ChunksMapLoopLastWins(chunks, m) ==
    IF chunks = <<>> THEN m
    ELSE LET chunk == chunks[1]
         IN  ChunksMapLoopLastWins(Tail(chunks),
                 [h \in DOMAIN m \cup {chunk.strong_hash} |->
                     IF h = chunk.strong_hash THEN chunk ELSE m[h]])

\* Signature::chunks_map: entry(hash).or_insert(chunk) keeps the first chunk
\* inserted under a hash
RECURSIVE ChunksMapLoop(_, _)
ChunksMapLoop(chunks, m) ==
    IF chunks = <<>> THEN m
    ELSE LET chunk == chunks[1]
         IN  ChunksMapLoop(Tail(chunks),
                 IF chunk.strong_hash \in DOMAIN m THEN m
                 ELSE [h \in DOMAIN m \cup {chunk.strong_hash} |->
                          IF h = chunk.strong_hash THEN chunk ELSE m[h]])

EmptyMap == [h \in {} |-> 0]

ChunksMap(sig) == ChunksMapLoop(sig.chunks, EmptyMap)

\* --------------------------------------------------------------------- diff
\* variant: CopyOps chain only when they also sit at their source position
CanChainUnmovedOnly(self, other) ==
    IF self.kind = "COPY"
    THEN /\ self.source_offset + self.length = other.source_offset
         /\ self.offset + self.length = other.offset
         /\ self.source_offset = self.offset
    ELSE self.offset + self.length = other.offset

\* ChainableOp::can_chain for CopyOp and for InsertOp (both ops of one kind)
CanChain(self, other) ==
    IF self.kind = "COPY"
    THEN /\ self.source_offset + self.length = other.source_offset
         /\ self.offset + self.length = other.offset
    ELSE self.offset + self.length = other.offset

\* variant: chaining that leaves the length of the last op as it was
ChainKeepLength(self, length) == self

\* ChainableOp::chain
Chain(self, length) == [self EXCEPT !.length = self.length + length]

\* variant: every candidate op is pushed, none is chained
ChainOrPushAlwaysPush(op, ops) == Append(ops, op)

\* Diff::chain_or_push: the ops vector afterwards
ChainOrPush(op, ops) ==
    IF ops # <<>>
    THEN LET last_op == ops[Len(ops)]
         IN  IF CanChain(last_op, op)
             THEN [ops EXCEPT ![Len(ops)] = Chain(last_op, op.length)]
             ELSE Append(ops, op)
    ELSE Append(ops, op)

\* variant: a CopyOp that reads the source at the target chunk's offset
CreateCopyOpAtTargetOffset(source_chunk, target_chunk, ops) ==
    LET op == [kind |-> "COPY",
               source_offset |-> target_chunk.offset,
               offset |-> target_chunk.offset,
               length |-> source_chunk.length]
    IN  [op |-> op, ops |-> Append(ops, op)]

\* Diff::create_copy_op: the candidate op (returned) and the ops vector
CreateCopyOp(source_chunk, target_chunk, ops) ==
    LET op == [kind |-> "COPY",
               source_offset |-> source_chunk.offset,
               offset |-> target_chunk.offset,
               length |-> source_chunk.length]
    IN  [op |-> op, ops |-> ChainOrPush(op, ops)]

\* variant: every InsertOp carries the nil id
CreateInsertOpNilUuid(target_chunk, ops, uuid) ==
    LET op == [kind |-> "INSERT",
               offset |-> target_chunk.offset,
               length |-> target_chunk.length,
               uuid |-> 0]
    IN  [op |-> op, ops |-> IF ops # <<>> /\ ops[Len(ops)].offset + ops[Len(ops)].length = op.offset
                            THEN [ops EXCEPT ![Len(ops)].length = @ + op.length]
                            ELSE Append(ops, op)]

\* Diff::create_insert_op; `uuid` is the value Uuid::new_v4() returns
CreateInsertOp(target_chunk, ops, uuid) ==
    LET op == [kind |-> "INSERT",
               offset |-> target_chunk.offset,
               length |-> target_chunk.length,
               uuid |-> uuid]
    IN  [op |-> op, ops |-> ChainOrPush(op, ops)]

\* the loop of Diff::new over target.chunks; st.uuid is the next fresh id
RECURSIVE DiffLoop(_, _, _)
DiffLoop(target_chunks, source_map, st) ==
    IF target_chunks = <<>> THEN st
    ELSE LET target_chunk == target_chunks[1]
         IN  IF target_chunk.strong_hash \in DOMAIN source_map
             THEN LET r == CreateCopyOp(source_map[target_chunk.strong_hash],
                                        target_chunk, st.copy_ops)
                  IN  DiffLoop(Tail(target_chunks), source_map,
                          [st EXCEPT !.copy_ops = r.ops,
                                     !.copy_length = @ + r.op.length])
             ELSE LET r == CreateInsertOp(target_chunk, st.insert_ops, st.uuid)
                  IN  DiffLoop(Tail(target_chunks), source_map,
                          [st EXCEPT !.insert_ops = r.ops,
                                     !.insert_length = @ + r.op.length,
                                     !.uuid = @ + 1])

\* impl Ord for Operation compares target offsets only; Vec::sort is stable:
\* an op goes behind every op that is not greater
RECURSIVE InsertSorted(_, _)
InsertSorted(sorted, op) ==
    IF sorted = <<>> THEN <<op>>
    ELSE IF sorted[Len(sorted)].offset <= op.offset THEN Append(sorted, op)
    ELSE Append(InsertSorted(SubSeq(sorted, 1, Len(sorted) - 1), op),
                sorted[Len(sorted)])

RECURSIVE SortLoop(_, _)
SortLoop(ops, sorted) ==
    IF ops = <<>> THEN sorted
    ELSE SortLoop(Tail(ops), InsertSorted(sorted, ops[1]))

\* variant: the operations left in the order copy_ops, insert_ops
SortOperationsUnsorted(operations) == operations

SortOperations(operations) == SortLoop(operations, <<>>)

\* Diff::new; `uuid` is the first id the generator hands out during the call.
\* Returns None or Some(diff); next_uuid is the generator's position after.
DiffNew(source, target, uuid) ==
    IF SignatureEq(source, target) THEN [diff |-> None, next_uuid |-> uuid]
    ELSE LET st == DiffLoop(target.chunks, ChunksMap(source),
                        [copy_ops |-> <<>>, insert_ops |-> <<>>,
                         copy_length |-> 0, insert_length |-> 0, uuid |-> uuid])
         IN  [diff |-> Some([operations |-> SortOperations(st.copy_ops \o st.insert_ops),
                             copy_length |-> st.copy_length,
                             insert_length |-> st.insert_length,
                             copy_ops |-> st.copy_ops,
                             insert_ops |-> st.insert_ops]),
              next_uuid |-> st.uuid]

\* ------------------------------------------------------------------ streams
\* seek(SeekFrom::Start(offset)), then io::copy out of take(length): the bytes
\* from offset up to the limit or the end of the stream, whichever comes
\* first.  Seeking a file or a cursor beyond its end succeeds; reading there
\* yields no bytes.
SeekTakeCopy(data, offset, length) ==
    SubSeq(data, offset + 1, Min(offset + length, Len(data)))

\* Write::write_all at the writer's position: overwrites what is there,
\* extends the data at its end, advances the position
WriteAll(w, bytes) ==
    [data |-> SubSeq(w.data, 1, w.pos) \o bytes
                \o SubSeq(w.data, w.pos + Len(bytes) + 1, Len(w.data)),
     pos |-> w.pos + Len(bytes)]

\* a writer over `data`, positioned at its start
Writer(data) == [data |-> data, pos |-> 0]

\* ------------------------------------------------------------------ builder
\* HashMap::insert
MapInsert(m, k, v) == [x \in DOMAIN m \cup {k} |-> IF x = k THEN v ELSE m[x]]

\* the loop of build_local_diff_file
RECURSIVE BuildLocalDiffFileLoop(_, _, _)
BuildLocalDiffFileLoop(r, ops, st) ==
    IF ops = <<>> THEN st
    ELSE LET op == ops[1]
             chunk == SeekTakeCopy(r, op.offset, op.length)
         IN  BuildLocalDiffFileLoop(r, Tail(ops),
                 [w |-> WriteAll(st.w, chunk),
                  segments |-> MapInsert(st.segments, op.uuid,
                                         [at |-> st.at, length |-> op.length]),
                  at |-> st.at + op.length])

\* build_local_diff_file: always Ok(segments); w is the writer afterwards
BuildLocalDiffFile(r, w, ops) ==
    LET st == BuildLocalDiffFileLoop(r, ops, [w |-> w, segments |-> EmptyMap, at |-> 0])
    IN  [result |-> [tag |-> "Ok", val |-> st.segments], w |-> st.w]

\* variant: an INSERT whose segment is missing is skipped
RECURSIVE BuildLocalFileLoopSkipMissing(_, _, _, _, _, _)
BuildLocalFileLoopSkipMissing(source, destination, ops, diff_file, diff_schema, done) ==
    IF ops = <<>>
    THEN [result |-> [tag |-> "Ok"], destination |-> destination, done |-> done]
    ELSE LET op == ops[1]
         IN  IF op.kind = "COPY"
             THEN BuildLocalFileLoopSkipMissing(source,
                      WriteAll(destination, SeekTakeCopy(source, op.source_offset, op.length)),
                      Tail(ops), diff_file, diff_schema, done + 1)
             ELSE IF op.uuid \notin DOMAIN diff_schema
             THEN BuildLocalFileLoopSkipMissing(source, destination, Tail(ops),
                                                diff_file, diff_schema, done)
             ELSE LET segment == diff_schema[op.uuid]
                  IN  BuildLocalFileLoopSkipMissing(source,
                          WriteAll(destination, SeekTakeCopy(diff_file, segment.at, segment.length)),
                          Tail(ops), diff_file, diff_schema, done + 1)

\* build_local_file: the result, the destination writer afterwards and the
\* number of operations carried out
RECURSIVE BuildLocalFileLoop(_, _, _, _, _, _)
BuildLocalFileLoop(source, destination, ops, diff_file, diff_schema, done) ==
    IF ops = <<>>
    THEN [result |-> [tag |-> "Ok"], destination |-> destination, done |-> done]
    ELSE LET op == ops[1]
         IN  IF op.kind = "COPY"
             THEN BuildLocalFileLoop(source,
                      WriteAll(destination, SeekTakeCopy(source, op.source_offset, op.length)),
                      Tail(ops), diff_file, diff_schema, done + 1)
             ELSE IF op.uuid \notin DOMAIN diff_schema
             THEN [result |-> [tag |-> "Err", segment |-> op.uuid],
                   destination |-> destination, done |-> done]
             ELSE LET segment == diff_schema[op.uuid]
                  IN  BuildLocalFileLoop(source,
                          WriteAll(destination, SeekTakeCopy(diff_file, segment.at, segment.length)),
                          Tail(ops), diff_file, diff_schema, done + 1)

BuildLocalFile(source, destination, ops, diff_file, diff_schema) ==
    BuildLocalFileLoop(source, destination, ops, diff_file, diff_schema, 0)

\* ------------------------------------------------------------ serialization
RECURSIVE Pow(_, _)
Pow(b, e) == IF e = 0 THEN 1 ELSE b * Pow(b, e - 1)

\* blake3::Hash::to_hex: a fixed number of hex digits, most significant first
ToHex(hash) == [i \in 1..HexWidth |-> (hash \div Pow(16, HexWidth - i)) % 16]

\* blake3::Hash::from_hex
RECURSIVE FromHex(_)
FromHex(hex) ==
    IF hex = <<>> THEN 0
    ELSE FromHex(SubSeq(hex, 1, Len(hex) - 1)) * 16 + hex[Len(hex)]

\* serde_json::to_string_pretty(&sig): the fields as they stand in the file
SerializeSignature(sig) ==
    [strong_hash |-> ToHex(sig.strong_hash),
     length |-> sig.length,
     chunks |-> [i \in 1..Len(sig.chunks) |->
                    [length |-> sig.chunks[i].length,
                     offset |-> sig.chunks[i].offset,
                     strong_hash |-> ToHex(sig.chunks[i].strong_hash)]]]

\* serde_json::from_reader
DeserializeSignature(rsig) ==
    [strong_hash |-> FromHex(rsig.strong_hash),
     length |-> rsig.length,
     chunks |-> [i \in 1..Len(rsig.chunks) |->
                    [length |-> rsig.chunks[i].length,
                     offset |-> rsig.chunks[i].offset,
                     strong_hash |-> FromHex(rsig.chunks[i].strong_hash)]]]

\* -------------------------------------------------------------------- state
VARIABLES
    source_file,    \* bytes of the source file
    target_file,    \* bytes of the target file
    source_sig,     \* Signature generated from the source, or None
    target_sig,     \* Signature generated from the target, or None
    source_rsig,    \* content of the source's .rsig file, or None
    target_rsig,    \* content of the target's .rsig file, or None
    diff,           \* NotRun, or what Diff::new returned: None or Some(diff)
    diff_file,      \* bytes of the diff (payload) file, or None
    diff_schema,    \* DiffSchema build_local_diff_file returned, or None
    dst_file,       \* bytes of the destination, or None when there is none
    result,         \* None, or the result of build_local_file / of the diff command
    next_uuid       \* the next id Uuid::new_v4() hands out

vars == <<source_file, target_file, source_sig, target_sig, source_rsig, target_rsig,
          diff, diff_file, diff_schema, dst_file, result, next_uuid>>

NotRun == [tag |-> "NotRun"]

InitFiles(n) ==
    /\ source_file \in SeqsUpTo(n)
    /\ target_file \in SeqsUpTo(n)
    /\ source_sig = None
    /\ target_sig = None
    /\ source_rsig = None
    /\ target_rsig = None
    /\ diff = NotRun
    /\ diff_file = None
    /\ diff_schema = None
    /\ result = None
    /\ next_uuid = FirstUuid

\* ------------------------------------------------- the library, step by step
Init ==
    /\ InitFiles(MaxLen)
    /\ dst_file = None

SignSource ==
    /\ source_sig = None
    /\ \E p \in ChunkParams : source_sig' = Some(Generate(source_file, p))
    /\ UNCHANGED <<source_file, target_file, target_sig, source_rsig, target_rsig,
                   diff, diff_file, diff_schema, dst_file, result, next_uuid>>

SignTarget ==
    /\ target_sig = None
    /\ \E p \in ChunkParams : target_sig' = Some(Generate(target_file, p))
    /\ UNCHANGED <<source_file, target_file, source_sig, source_rsig, target_rsig,
                   diff, diff_file, diff_schema, dst_file, result, next_uuid>>

ComputeDiff ==
    /\ source_sig # None
    /\ target_sig # None
    /\ diff = NotRun
    /\ LET r == DiffNew(source_sig.val, target_sig.val, next_uuid)
       IN  /\ diff' = r.diff
           /\ next_uuid' = r.next_uuid
    /\ UNCHANGED <<source_file, target_file, source_sig, target_sig, source_rsig,
                   target_rsig, diff_file, diff_schema, dst_file, result>>

\* build_local_diff_file(r, an empty diff file, diff.insert_ops)
BuildLocalDiffFileCall(r) ==
    /\ diff \notin {NotRun, None}
    /\ diff_schema = None
    /\ LET b == BuildLocalDiffFile(r, Writer(<<>>), diff.val.insert_ops)
       IN  /\ diff_file' = Some(b.w.data)
           /\ diff_schema' = Some(b.result.val)
    /\ UNCHANGED <<source_file, target_file, source_sig, target_sig, source_rsig,
                   target_rsig, diff, dst_file, result, next_uuid>>

\* build_local_file(source, an empty destination, diff.operations, the diff
\* file, schema)
BuildLocalFileCall(source, schema) ==
    /\ diff \notin {NotRun, None}
    /\ diff_schema # None
    /\ result = None
    /\ LET b == BuildLocalFile(source, Writer(<<>>), diff.val.operations,
                               diff_file.val, schema)
       IN  /\ dst_file' = Some(b.destination.data)
           /\ result' = Some(b.result)
    /\ UNCHANGED <<source_file, target_file, source_sig, target_sig, source_rsig,
                   target_rsig, diff, diff_file, diff_schema, next_uuid>>

BuildDiffFile == BuildLocalDiffFileCall(target_file)

BuildFile == BuildLocalFileCall(source_file, diff_schema.val)

Next ==
    \/ SignSource
    \/ SignTarget
    \/ ComputeDiff
    \/ BuildDiffFile
    \/ BuildFile

Spec == Init /\ [][Next]_vars

\* ------------------------- the builders on streams and schemas of any origin
\* build_local_diff_file and build_local_file take whatever streams and schema
\* the caller hands over: the files may have shrunk since they were signed,
\* and the schema may lack segments of the diff.
InitBuild ==
    /\ InitFiles(MaxBuildLen)
    /\ dst_file = None

\* the target stream handed to build_local_diff_file is shorter than the
\* signed target
ShortenTarget ==
    /\ source_sig # None
    /\ target_sig # None
    /\ diff_schema = None
    /\ target_file # <<>>
    /\ target_file' = SubSeq(target_file, 1, Len(target_file) - 1)
    /\ UNCHANGED <<source_file, source_sig, target_sig, source_rsig, target_rsig,
                   diff, diff_file, diff_schema, dst_file, result, next_uuid>>

\* the source stream handed to build_local_file is shorter than the signed
\* source
ShortenSource ==
    /\ source_sig # None
    /\ target_sig # None
    /\ result = None
    /\ source_file # <<>>
    /\ source_file' = SubSeq(source_file, 1, Len(source_file) - 1)
    /\ UNCHANGED <<target_file, source_sig, target_sig, source_rsig, target_rsig,
                   diff, diff_file, diff_schema, dst_file, result, next_uuid>>

\* the schema handed to build_local_file lacks a segment
DropSegment ==
    /\ diff_schema # None
    /\ result = None
    /\ \E id \in DOMAIN diff_schema.val :
          diff_schema' = Some([x \in DOMAIN diff_schema.val \ {id} |-> diff_schema.val[x]])
    /\ UNCHANGED <<source_file, target_file, source_sig, target_sig, source_rsig,
                   target_rsig, diff, diff_file, dst_file, result, next_uuid>>

NextBuild ==
    \/ SignSource
    \/ SignTarget
    \/ ComputeDiff
    \/ ShortenTarget
    \/ BuildDiffFile
    \/ ShortenSource
    \/ DropSegment
    \/ BuildFile

SpecBuild == InitBuild /\ [][NextBuild]_vars

\* --------------------------------------------------------------- the commands
\* the destination path holds nothing or some earlier content
InitCmd ==
    /\ InitFiles(MaxCmdLen)
    /\ dst_file \in {None} \cup {Some(d) : d \in SeqsUpTo(MaxPriorLen)}

\* SignCommand::run on a mask that matches the source, the target or both
SignCommandRun ==
    /\ result = None
    /\ \E p \in ChunkParams, files \in (SUBSET {"source", "target"}) \ {{}} :
          /\ source_rsig' = IF "source" \in files
                            THEN Some(SerializeSignature(Generate(source_file, p)))
                            ELSE source_rsig
          /\ target_rsig' = IF "target" \in files
                            THEN Some(SerializeSignature(Generate(target_file, p)))
                            ELSE target_rsig
    /\ UNCHANGED <<source_file, target_file, source_sig, target_sig, diff, diff_file,
                   diff_schema, dst_file, result, next_uuid>>

\* OpenOptions::new().write(true).create(true).open(path): the file as it is,
\* created empty when there is none, written from its start
OpenDestination(file) == Writer(IF file = None THEN <<>> ELSE file.val)

\* DiffCommand::run
DiffCommandRun ==
    /\ result = None
    /\ IF source_rsig = None \/ target_rsig = None
       THEN /\ result' = Some([tag |-> "Err", open |-> "rsig"])
            /\ UNCHANGED <<source_sig, target_sig, diff, diff_file, diff_schema,
                           dst_file, next_uuid>>
       ELSE LET source == DeserializeSignature(source_rsig.val)
                target == DeserializeSignature(target_rsig.val)
                r == DiffNew(source, target, next_uuid)
            IN  /\ source_sig' = Some(source)
                /\ target_sig' = Some(target)
                /\ diff' = r.diff
                /\ next_uuid' = r.next_uuid
                /\ IF r.diff = None
                   THEN /\ result' = Some([tag |-> "Ok"])
                        /\ UNCHANGED <<diff_file, diff_schema, dst_file>>
                   ELSE LET d == BuildLocalDiffFile(target_file, Writer(<<>>),
                                                    r.diff.val.insert_ops)
                            b == BuildLocalFile(source_file, OpenDestination(dst_file),
                                                r.diff.val.operations, d.w.data,
                                                d.result.val)
                        IN  /\ diff_schema' = Some(d.result.val)
                            /\ dst_file' = Some(b.destination.data)
                            /\ result' = Some(b.result)
                            /\ \E keep_diff_file \in BOOLEAN :
                                  diff_file' = IF b.result.tag = "Ok" /\ keep_diff_file
                                               THEN Some(d.w.data) ELSE None
    /\ UNCHANGED <<source_file, target_file, source_rsig, target_rsig>>

NextCmd ==
    \/ SignCommandRun
    \/ DiffCommandRun

SpecCmd == InitCmd /\ [][NextCmd]_vars

\* --------------------------------------------------------------- properties
HasDiff == diff \notin {NotRun, None}

IsPrefix(a, b) == Len(a) <= Len(b) /\ SubSeq(b, 1, Len(a)) = a

KindCount(ops, kind) == Cardinality({i \in 1..Len(ops) : ops[i].kind = kind})

\* C1 (round trip): once build_local_file has run on the source stream with
\* the diff's operations, the payload and the schema build_local_diff_file
\* produced from the target stream, it has succeeded and the destination,
\* empty before, holds exactly the target bytes.
RoundTrip ==
    result # None => /\ result.val.tag = "Ok"
                     /\ dst_file = Some(target_file)

\* a reconstruction that used both a COPY and an INSERT
RoundTripWitness ==
    /\ result # None
    /\ dst_file = Some(target_file)
    /\ diff.val.copy_ops # <<>>
    /\ diff.val.insert_ops # <<>>
    /\ \E i \in 1..Len(diff.val.copy_ops) :
          diff.val.copy_ops[i].source_offset # diff.val.copy_ops[i].offset

\* C2 (coverage): the operation lengths of a Diff sum to target.length, which
\* is also copy_length + insert_length; copy_length is the sum of the merged
\* copy_ops lengths and insert_length the sum of the merged insert_ops lengths.
Coverage ==
    HasDiff =>
        /\ SumLengths(diff.val.operations) = target_sig.val.length
        /\ diff.val.copy_length + diff.val.insert_length = target_sig.val.length
        /\ diff.val.copy_length = SumLengths(diff.val.copy_ops)
        /\ diff.val.insert_length = SumLengths(diff.val.insert_ops)
        /\ target_sig.val.length = Len(target_file)

\* a Diff of both kinds in which chaining merged at least two chunks away
CoverageWitness ==
    /\ HasDiff
    /\ Len(diff.val.copy_ops) + Len(diff.val.insert_ops) + 2 <= Len(target_sig.val.chunks)
    /\ diff.val.copy_length > 0
    /\ diff.val.insert_length > 0

\* C3 (order): the operations of a Diff ascend strictly by target offset,
\* start at offset 0 and each starts where the one before it ends.
OrderInvariant ==
    HasDiff =>
        LET ops == diff.val.operations
        IN  /\ ops # <<>> => ops[1].offset = 0
            /\ \A i \in 1..(Len(ops) - 1) :
                  /\ ops[i].offset < ops[i + 1].offset
                  /\ ops[i].offset + ops[i].length = ops[i + 1].offset

\* a Diff whose sort had to move an INSERT in front of a COPY
OrderWitness ==
    /\ HasDiff
    /\ Len(diff.val.operations) >= 3
    /\ diff.val.operations[1].kind = "INSERT"
    /\ diff.val.operations[2].kind = "COPY"

\* C4 (equality short-circuit): Diff::new returns nothing exactly when the two
\* whole-file hashes are equal, whatever the lengths and chunk lists are; so
\* signatures of byte-identical content give nothing, and all others a Diff.
EqualityShortCircuit ==
    diff # NotRun =>
        /\ (diff = None) <=> (source_sig.val.strong_hash = target_sig.val.strong_hash)
        /\ (diff = None) <=> (source_file = target_file)

\* equal content signed with different parameters: the chunk lists differ and
\* Diff::new still returns nothing
EqualityWitness ==
    /\ diff = None
    /\ source_sig.val.chunks # target_sig.val.chunks
    /\ source_file = target_file

\* indices of the INSERT operations whose id the schema lacks
MissingSegments(ops, schema) ==
    {i \in 1..Len(ops) : ops[i].kind = "INSERT" /\ ops[i].uuid \notin DOMAIN schema}

\* the bytes the operations ops[1..n] move to the destination, one after another
RECURSIVE Transferred(_, _, _, _, _)
Transferred(ops, n, source, payload, schema) ==
    IF n = 0 THEN <<>>
    ELSE Transferred(ops, n - 1, source, payload, schema)
         \o (IF ops[n].kind = "COPY"
             THEN SeekTakeCopy(source, ops[n].source_offset, ops[n].length)
             ELSE SeekTakeCopy(payload, schema[ops[n].uuid].at, schema[ops[n].uuid].length))

\* C5 (missing segment is fatal): when the operations hold an INSERT whose id
\* the schema lacks, build_local_file returns the error for the first such
\* operation, and the destination holds the bytes of the operations before it
\* and nothing of that operation or of the later ones.
MissingSegmentFatal ==
    (result # None /\ HasDiff /\ MissingSegments(diff.val.operations, diff_schema.val) # {}) =>
        LET ops == diff.val.operations
            missing == MissingSegments(ops, diff_schema.val)
            k == CHOOSE i \in missing : \A j \in missing : i <= j
        IN  /\ result.val = [tag |-> "Err", segment |-> ops[k].uuid]
            /\ dst_file.val = Transferred(ops, k - 1, source_file, diff_file.val,
                                          diff_schema.val)

\* the error hits the second operation: one operation is written, one is not
\* reached
MissingSegmentWitness ==
    /\ result # None
    /\ result.val.tag = "Err"
    /\ Len(diff.val.operations) >= 3
    /\ diff.val.operations[2].kind = "INSERT"
    /\ diff.val.operations[2].uuid = result.val.segment
    /\ dst_file.val # <<>>

\* C6 (short streams are errors), as claimed: a call that returned success has
\* read every operation's byte range in full, so no range extends past the end
\* of the stream it is read from.
ShortStreamIsError ==
    /\ (HasDiff /\ diff_schema # None) =>
          /\ \A i \in 1..Len(diff.val.insert_ops) :
                diff.val.insert_ops[i].offset + diff.val.insert_ops[i].length
                    <= Len(target_file)
          /\ Len(diff_file.val) = SumLengths(diff.val.insert_ops)
    /\ (HasDiff /\ result # None /\ result.val.tag = "Ok") =>
          /\ \A i \in 1..Len(diff.val.operations) :
                LET op == diff.val.operations[i]
                IN  IF op.kind = "COPY"
                    THEN op.source_offset + op.length <= Len(source_file)
                    ELSE diff_schema.val[op.uuid].at + diff_schema.val[op.uuid].length
                             <= Len(diff_file.val)
          /\ Len(dst_file.val) = SumLengths(diff.val.operations)

\* C7 (the diff command reconstructs the target), as claimed: after a
\* successful run on signatures with different hashes the destination file is
\* byte-identical to the target file, whatever the path held before.
CommandReconstructsTarget ==
    (HasDiff /\ result = Some([tag |-> "Ok"])) => dst_file = Some(target_file)

\* C8 (segment lookup completeness): the INSERT operations of a Diff carry
\* pairwise distinct ids, each with its one Segment in the schema built from
\* the Diff's insert_ops, of the operation's merged length; so build_local_file
\* never fails for a missing segment.
SegmentLookupComplete ==
    /\ (HasDiff /\ diff_schema # None) =>
          LET ops == diff.val.operations
              ins == {i \in 1..Len(ops) : ops[i].kind = "INSERT"}
          IN  /\ \A i \in ins :
                    /\ \A j \in ins : i # j => ops[i].uuid # ops[j].uuid
                    /\ ops[i].uuid \in DOMAIN diff_schema.val
                    /\ diff_schema.val[ops[i].uuid].length = ops[i].length
              /\ Cardinality(DOMAIN diff_schema.val) = Cardinality(ins)
    /\ result # None => result.val.tag = "Ok"

\* a reconstruction that looked up two INSERT operations, one of them merged
SegmentLookupWitness ==
    /\ result # None
    /\ KindCount(diff.val.operations, "INSERT") >= 2
    /\ Len(target_sig.val.chunks) > Len(diff.val.operations)

\* both signatures were generated with the same chunking parameters
SameParams ==
    \E p \in ChunkParams : /\ source_sig.val = Generate(source_file, p)
                           /\ target_sig.val = Generate(target_file, p)

\* one CopyOp for the whole target, nothing inserted
OneCopyOfTarget ==
    /\ HasDiff
    /\ diff.val.copy_ops = <<[kind |-> "COPY", source_offset |-> 0, offset |-> 0,
                              length |-> Len(target_file)]>>
    /\ diff.val.insert_ops = <<>>
    /\ diff.val.insert_length = 0

\* C9 (truncation), as claimed: a target that is a proper non-empty prefix of
\* the source, chunked with the same parameters, gives one CopyOp over the
\* whole target and no InsertOp.
TruncationOneCopy ==
    (/\ diff # NotRun
     /\ SameParams
     /\ target_file # <<>>
     /\ Len(target_file) < Len(source_file)
     /\ IsPrefix(target_file, source_file)) => OneCopyOfTarget

\* the first k chunks of the source end at the end of the target and have
\* pairwise distinct hashes
RetainsDistinctChunks(k) ==
    LET chunks == source_sig.val.chunks
    IN  /\ chunks[k].offset + chunks[k].length = Len(target_file)
        /\ \A i, j \in 1..k : i # j => chunks[i].strong_hash # chunks[j].strong_hash

\* C9 amended: when moreover the target ends on a chunk boundary of the source
\* and no two of the retained source chunks have the same hash, the Diff is
\* one CopyOp over the whole target and no InsertOp.
TruncationOnBoundaryOneCopy ==
    (/\ diff # NotRun
     /\ SameParams
     /\ target_file # <<>>
     /\ Len(target_file) < Len(source_file)
     /\ IsPrefix(target_file, source_file)
     /\ \E k \in 1..Len(source_sig.val.chunks) : RetainsDistinctChunks(k)) => OneCopyOfTarget

\* a truncation that retains two chunks of a source with three or more, where
\* a later source chunk repeats a retained one
TruncationWitness ==
    /\ diff # NotRun
    /\ SameParams
    /\ Len(target_file) < Len(source_file)
    /\ IsPrefix(target_file, source_file)
    /\ Len(source_sig.val.chunks) >= 3
    /\ RetainsDistinctChunks(2)
    /\ \E i \in 3..Len(source_sig.val.chunks) :
          source_sig.val.chunks[i].strong_hash = source_sig.val.chunks[1].strong_hash
    /\ OneCopyOfTarget

\* the target chunk i hits the source index
Hit(i) == target_sig.val.chunks[i].strong_hash \in DOMAIN ChunksMap(source_sig.val)

\* the source chunk the index gives for the target chunk i
Matched(i) == ChunksMap(source_sig.val)[target_sig.val.chunks[i].strong_hash]

\* the id minted for the target chunk i, a miss: one id per miss, in order
MintedId(i) == FirstUuid + Cardinality({m \in 1..(i - 1) : ~Hit(m)})

\* the op spans exactly the target chunks f..l
Spans(op, f, l) ==
    LET chunks == target_sig.val.chunks
    IN  /\ op.offset = chunks[f].offset
        /\ op.length = SumLengths(SubSeq(chunks, f, l))

\* C10 (chaining): two adjacent target chunks that hit source chunks adjacent
\* in the source lie in one CopyOp, and two adjacent target chunks that both
\* miss lie in one InsertOp; the op's length is the sum of the lengths of the
\* chunks it spans, and an InsertOp has the offset and the id of the first of
\* them.  So operations never holds two INSERTs in a row, nor two COPYs in a
\* row that are contiguous in the source.
ChainingCorrect ==
    HasDiff =>
        LET chunks == target_sig.val.chunks
            ops == diff.val.operations
            copy_ops == diff.val.copy_ops
            insert_ops == diff.val.insert_ops
        IN  /\ \A i \in 1..(Len(chunks) - 1) :
                  (/\ Hit(i)
                   /\ Hit(i + 1)
                   /\ Matched(i).offset + Matched(i).length = Matched(i + 1).offset) =>
                      \E n \in 1..Len(copy_ops), f \in 1..i, l \in (i + 1)..Len(chunks) :
                          /\ Spans(copy_ops[n], f, l)
                          /\ copy_ops[n].source_offset = Matched(f).offset
                          /\ copy_ops[n] \in {ops[x] : x \in 1..Len(ops)}
                          /\ (f = i /\ l = i + 1) =>
                                copy_ops[n].length = chunks[i].length + chunks[i + 1].length
            /\ \A i \in 1..(Len(chunks) - 1) :
                  (~Hit(i) /\ ~Hit(i + 1)) =>
                      \E n \in 1..Len(insert_ops), f \in 1..i, l \in (i + 1)..Len(chunks) :
                          /\ Spans(insert_ops[n], f, l)
                          /\ insert_ops[n].uuid = MintedId(f)
                          /\ insert_ops[n] \in {ops[x] : x \in 1..Len(ops)}
                          /\ (f = i /\ l = i + 1) =>
                                insert_ops[n].length = chunks[i].length + chunks[i + 1].length
            /\ \A x \in 1..(Len(ops) - 1) :
                  /\ ~(ops[x].kind = "INSERT" /\ ops[x + 1].kind = "INSERT")
                  /\ ~(/\ ops[x].kind = "COPY"
                       /\ ops[x + 1].kind = "COPY"
                       /\ ops[x].source_offset + ops[x].length = ops[x + 1].source_offset)

\* a Diff with a CopyOp chained from two chunks found away from their target
\* offsets, and an InsertOp chained from two chunks
ChainingWitness ==
    /\ HasDiff
    /\ \E i \in 1..(Len(target_sig.val.chunks) - 1) :
          /\ Hit(i)
          /\ Hit(i + 1)
          /\ Matched(i).offset + Matched(i).length = Matched(i + 1).offset
          /\ Matched(i).offset # target_sig.val.chunks[i].offset
    /\ \E i \in 1..(Len(target_sig.val.chunks) - 1) : ~Hit(i) /\ ~Hit(i + 1)

\* the target chunks i..j carry the hashes of the source chunks a..a+(j-i)
RunInSource(i, j, a) ==
    /\ a + (j - i) <= Len(source_sig.val.chunks)
    /\ \A k \in 0..(j - i) :
          target_sig.val.chunks[i + k].strong_hash = source_sig.val.chunks[a + k].strong_hash

\* the source chunk a is the first chunk of the source with its hash
IsFirstOccurrence(a) ==
    \A b \in 1..(a - 1) :
        source_sig.val.chunks[b].strong_hash # source_sig.val.chunks[a].strong_hash

\* one CopyOp covers the target chunks i..j
InOneCopyOp(i, j) ==
    LET chunks == target_sig.val.chunks
    IN  \E n \in 1..Len(diff.val.copy_ops) :
            /\ diff.val.copy_ops[n].offset <= chunks[i].offset
            /\ chunks[j].offset + chunks[j].length
                   <= diff.val.copy_ops[n].offset + diff.val.copy_ops[n].length

\* C11 (minimal operation count), as claimed: every run of consecutive target
\* chunks whose hashes are those of a run of consecutive source chunks, in the
\* same order, lies in one CopyOp, also when the source repeats hashes.
MinimalOperationCount ==
    HasDiff =>
        \A i \in 1..Len(target_sig.val.chunks), j \in 1..Len(target_sig.val.chunks),
           a \in 1..Len(source_sig.val.chunks) :
            (i <= j /\ RunInSource(i, j, a)) => InOneCopyOp(i, j)

\* C11 amended: such a run lies in one CopyOp when every chunk of the source
\* run is the first chunk of the source with its hash.
MinimalOperationCountFirstOccurrences ==
    HasDiff =>
        \A i \in 1..Len(target_sig.val.chunks), j \in 1..Len(target_sig.val.chunks),
           a \in 1..Len(source_sig.val.chunks) :
            (/\ i <= j
             /\ RunInSource(i, j, a)
             /\ \A k \in 0..(j - i) : IsFirstOccurrence(a + k)) => InOneCopyOp(i, j)

\* a run of two chunks found at another place of a source that repeats a hash
\* further on, copied by one CopyOp
MinimalOperationCountWitness ==
    /\ HasDiff
    /\ \E i \in 1..(Len(target_sig.val.chunks) - 1), a \in 1..Len(source_sig.val.chunks) :
          /\ RunInSource(i, i + 1, a)
          /\ IsFirstOccurrence(a)
          /\ IsFirstOccurrence(a + 1)
          /\ source_sig.val.chunks[a].offset # target_sig.val.chunks[i].offset
          /\ InOneCopyOp(i, i + 1)
    /\ \E b \in 1..Len(source_sig.val.chunks) : ~IsFirstOccurrence(b)

\* index of the first chunk of the source that carries the hash h
FirstIndex(h) ==
    CHOOSE a \in 1..Len(source_sig.val.chunks) :
        /\ source_sig.val.chunks[a].strong_hash = h
        /\ IsFirstOccurrence(a)

\* the CopyOp of the Diff that covers the target chunk i, a hit
CopyOpOf(i) ==
    LET chunk == target_sig.val.chunks[i]
        ops == diff.val.operations
    IN  ops[CHOOSE x \in 1..Len(ops) :
                /\ ops[x].kind = "COPY"
                /\ ops[x].offset <= chunk.offset
                /\ chunk.offset < ops[x].offset + ops[x].length]

\* the source offset the Diff copies the target chunk i from
CopiedFrom(i) ==
    CopyOpOf(i).source_offset + (target_sig.val.chunks[i].offset - CopyOpOf(i).offset)

\* the source has exactly one chunk with the hash h
SingleInSource(h) ==
    Cardinality({a \in 1..Len(source_sig.val.chunks) :
                     source_sig.val.chunks[a].strong_hash = h}) = 1

\* chunks_map holds every hash of the source, each with the first chunk that
\* carries it, and every target chunk that hits is copied from that chunk
IndexKeepsFirstOccurrence ==
    LET chunks == source_sig.val.chunks
        m == ChunksMap(source_sig.val)
    IN  /\ DOMAIN m = {chunks[a].strong_hash : a \in 1..Len(chunks)}
        /\ \A h \in DOMAIN m : m[h] = chunks[FirstIndex(h)]
        /\ \A i \in 1..Len(target_sig.val.chunks) :
              Hit(i) => CopiedFrom(i) =
                            chunks[FirstIndex(target_sig.val.chunks[i].strong_hash)].offset

====
